---- MODULE Spec2Model ----
(***************************************************************************)
(* PeerDrop: the useWebRTC session hook (hooks/useWebRTC.ts) of two peers, *)
(* the RTCPeerConnection / RTCDataChannel objects the hook drives, and the *)
(* file transfer protocol (file-meta, binary chunks, file-end) the hook    *)
(* runs over the data channel.                                             *)
(*                                                                         *)
(* Every handler of the hook is a state transformer: an operator that     *)
(* takes the whole state s (a record with one field per variable) and      *)
(* returns the state after the handler has run, so that a handler which    *)
(* calls another (createOffer calls resetState, createPeerConnection and   *)
(* setupDataChannel) is the composition of their transformers.             *)
(***************************************************************************)
EXTENDS Integers, Sequences, FiniteSets, TLC

Peers == {"A", "B"}

Other(p) == IF p = "A" THEN "B" ELSE "A"

\* const CHUNK_SIZE = 16384
CHUNK_SIZE == 16384

\* RTCDataChannel.bufferedAmountLowThreshold: the hook never assigns it, so it
\* keeps the platform's initial value.
bufferedAmountLowThreshold == 0

\* Bounds of the model: the calls of the negotiation interface (createOffer,
\* createAnswer, setRemoteAnswer, reset) the users make, the sends (sendText,
\* sendFile) they make, and the failures the platform injects.
MaxCalls == 3

MaxSends == 1

MaxFaults == 1

\* Bounds of the transfer scenarios: the calls of one negotiation, and the
\* sends that may overlap on the channel it opens.
TransferCalls == 3

TransferSends == 2

\* Bounds of the scenarios of a second session: the calls of two
\* negotiations, and the sends.
SessionsCalls == 6

SessionsSends == 1

\* the scenarios of inbound frames
InboundCalls == 3

InboundSends == 2

(***************************************************************************)
(* Values                                                                  *)
(***************************************************************************)
\* null of an object-valued field, and null of a string-valued one.
Null == [kind |-> "null"]

NoError == "null"

IsNull(v) == v.kind = "null"

Min(a, b) == IF a < b THEN a ELSE b

Range(f) == {f[i] : i \in DOMAIN f}

\* The File objects the user may pick.  The sizes cover the empty file, an
\* exact multiple of CHUNK_SIZE and a size with a short last chunk.
Files ==
  { [name |-> "empty.bin", size |-> 0,     type |-> ""],
    [name |-> "block.bin", size |-> 16384, type |-> "application/octet-stream"],
    [name |-> "notes.txt", size |-> 40000, type |-> "text/plain"] }

\* The texts the user may type (a string is held as a text value).
Texts == {[kind |-> "raw", text |-> "hello"]}

(***************************************************************************)
(* Bytes.  A byte string is a sequence of segments [src, lo, hi): the      *)
(* bytes lo .. hi-1 of the content of file src.  Two byte strings in       *)
(* normal form (no empty segment, no two adjacent segments that continue   *)
(* each other) are equal exactly when they are byte-for-byte equal for     *)
(* every content of the files.                                             *)
(***************************************************************************)
\* file content read by FileReader.readAsArrayBuffer
FileBytes(file) ==
  IF file.size = 0 THEN <<>>
  ELSE << [src |-> file.name, lo |-> 0, hi |-> file.size] >>

RECURSIVE byteLength(_)
byteLength(b) ==
  IF b = <<>> THEN 0 ELSE (b[1].hi - b[1].lo) + byteLength(Tail(b))

\* a slice that does not clamp end to the buffer's length
sliceUnclamped(buffer, begin, end) ==
  IF end <= begin THEN <<>>
  ELSE << [src |-> buffer[1].src, lo |-> buffer[1].lo + begin,
           hi |-> buffer[1].lo + end] >>

\* ArrayBuffer.prototype.slice(begin, end) of a buffer read from one file:
\* both indices are clamped to the buffer's length.
slice(buffer, begin, end) ==
  LET len == byteLength(buffer)
      b   == Min(begin, len)
      e   == Min(end, len)
  IN  IF e <= b THEN <<>>
      ELSE << [src |-> buffer[1].src, lo |-> buffer[1].lo + b,
               hi |-> buffer[1].lo + e] >>

\* concatenation, kept in normal form
Concat(x, y) ==
  IF x = <<>> THEN y
  ELSE IF y = <<>> THEN x
  ELSE LET l == x[Len(x)]
           f == y[1]
       IN  IF l.src = f.src /\ l.hi = f.lo
           THEN SubSeq(x, 1, Len(x) - 1)
                  \o << [src |-> l.src, lo |-> l.lo, hi |-> f.hi] >>
                  \o Tail(y)
           ELSE x \o y

\* new Blob(chunks, {type}): the parts in order
RECURSIVE BlobBytes(_)
BlobBytes(chunks) ==
  IF chunks = <<>> THEN <<>>
  ELSE Concat(chunks[1], BlobBytes(Tail(chunks)))

\* URL.createObjectURL(blob): a handle to the blob's bytes and type
createObjectURL(bytes, type) == [bytes |-> bytes, type |-> type]

(***************************************************************************)
(* JSON.  A text is either JSON text, held as the tree of its tokens       *)
(* (an object is the sequence of its members in the order written), or a   *)
(* text that is no JSON.                                                   *)
(***************************************************************************)
Lit(v) == [j |-> "lit", v |-> v]

JsonNull == [j |-> "null"]

Obj(members) == [j |-> "obj", members |-> members]

JsonText(tree) == [kind |-> "json", tree |-> tree]

RawText(t) == [kind |-> "raw", text |-> t]

MemberKeys(members) == {members[i][1] : i \in DOMAIN members}

\* the value of the last member with key k (JSON.parse keeps the last)
MemberValue(members, k) ==
  LET I == {i \in DOMAIN members : members[i][1] = k}
      last == CHOOSE i \in I : \A j \in I : j <= i
  IN  members[last][2]

RECURSIVE Decode(_)
Decode(tree) ==
  IF tree.j = "lit" THEN tree.v
  ELSE IF tree.j = "null" THEN Null
  ELSE [k \in MemberKeys(tree.members) |-> Decode(MemberValue(tree.members, k))]

\* JSON.parse: ok = FALSE stands for the SyntaxError it throws; shape tells an
\* object from null and from a primitive (a string, a number).
JSONparse(text) ==
  IF text.kind = "json"
  THEN [ok |-> TRUE,
        shape |-> CASE text.tree.j = "obj" -> "object"
                    [] text.tree.j = "null" -> "null"
                    [] OTHER -> "primitive",
        value |-> Decode(text.tree)]
  ELSE [ok |-> FALSE, shape |-> "none", value |-> Null]

\* obj.k !== undefined
Has(parsed, k) == parsed.shape = "object" /\ k \in DOMAIN parsed.value

\* message.type === t
TypeIs(parsed, t) == Has(parsed, "type") /\ parsed.value.type = t

\* a JSON.stringify that drops the content of a text record
stringifyTextWithoutContent(message) ==
  JsonText(Obj(<< <<"type", Lit(message.type)>>,
                  <<"id", Lit(message.id)>>,
                  <<"timestamp", Lit(message.timestamp)>> >>))

\* JSON.stringify of the three protocol records
stringifyText(message) ==
  JsonText(Obj(<< <<"type", Lit(message.type)>>,
                  <<"id", Lit(message.id)>>,
                  <<"content", Lit(message.content)>>,
                  <<"timestamp", Lit(message.timestamp)>> >>))

stringifyFileMeta(message) ==
  JsonText(Obj(<< <<"type", Lit(message.type)>>,
                  <<"payload",
                    Obj(<< <<"name", Lit(message.payload.name)>>,
                           <<"size", Lit(message.payload.size)>>,
                           <<"type", Lit(message.payload.type)>> >>)>> >>))

stringifyFileEnd(message) ==
  JsonText(Obj(<< <<"type", Lit(message.type)>> >>))

\* JSON.stringify(peerConnection.localDescription)
stringifyDescription(desc) ==
  IF IsNull(desc) THEN JsonText(JsonNull)
  ELSE JsonText(Obj(<< <<"type", Lit(desc.type)>>, <<"sdp", Lit(desc.sdp)>> >>))

\* bytes a frame adds to bufferedAmount: the byte length of a binary frame;
\* for a text frame the UTF-8 length, of which the hook only reads that it
\* is positive.
RECURSIVE TreeSize(_)
RECURSIVE MembersSize(_)
TreeSize(tree) ==
  IF tree.j \in {"lit", "null"} THEN 1 ELSE 2 + MembersSize(tree.members)

MembersSize(members) ==
  IF members = <<>> THEN 0
  ELSE 1 + TreeSize(members[1][2]) + MembersSize(Tail(members))

FrameBytes(frame) ==
  IF frame.binary THEN byteLength(frame.data) ELSE TreeSize(frame.data.tree)

TextFrame(text) == [binary |-> FALSE, data |-> text]

BinaryFrame(bytes) == [binary |-> TRUE, data |-> bytes]

\* Date.now(): the clock is not part of the state
Now == 0

(***************************************************************************)
(* State                                                                   *)
(***************************************************************************)
VARIABLES
  connectionState,   \* useState: 'disconnected' | 'connecting' | 'connected' | 'failed'
  receivedMessages,  \* useState: the message log
  offerSdp,          \* useState: the offer to share, or null
  answerSdp,         \* useState: the answer to share, or null
  errorMessage,      \* useState: the last error, or null
  pc,                \* useRef: the RTCPeerConnection (its number; 0 is null)
  dc,                \* useRef: the RTCDataChannel (its number; 0 is null)
  fileReceiver,      \* useRef: {info, chunks} of the file being received, or null
  conn,              \* the RTCPeerConnection object each peer created last
  chan,              \* the RTCDataChannel object each peer set up last
  closeEvents,       \* channels closed locally whose close event is still to fire
  wire,              \* frames on their way to each peer, in order
  tasks,             \* the closures of the sendFile calls of each peer
  calls,             \* user calls of the negotiation interface so far
  sends,             \* user calls of sendText and sendFile so far
  faults,            \* failures the platform has injected so far
  budget             \* how many of each the scenario allows

vars ==
  << connectionState, receivedMessages, offerSdp, answerSdp, errorMessage,
     pc, dc, fileReceiver, conn, chan, closeEvents, wire, tasks,
     calls, sends, faults, budget >>

\* the state as one record, for the handlers to transform
State ==
  [ connectionState |-> connectionState, receivedMessages |-> receivedMessages,
    offerSdp |-> offerSdp, answerSdp |-> answerSdp, errorMessage |-> errorMessage,
    pc |-> pc, dc |-> dc, fileReceiver |-> fileReceiver,
    conn |-> conn, chan |-> chan, closeEvents |-> closeEvents, wire |-> wire,
    tasks |-> tasks, calls |-> calls, sends |-> sends, faults |-> faults,
    budget |-> budget ]

\* the next state is t
Becomes(t) ==
  /\ connectionState' = t.connectionState
  /\ receivedMessages' = t.receivedMessages
  /\ offerSdp' = t.offerSdp
  /\ answerSdp' = t.answerSdp
  /\ errorMessage' = t.errorMessage
  /\ pc' = t.pc
  /\ dc' = t.dc
  /\ fileReceiver' = t.fileReceiver
  /\ conn' = t.conn
  /\ chan' = t.chan
  /\ closeEvents' = t.closeEvents
  /\ wire' = t.wire
  /\ tasks' = t.tasks
  /\ calls' = t.calls
  /\ sends' = t.sends
  /\ faults' = t.faults
  /\ budget' = t.budget

(***************************************************************************)
(* The platform's objects                                                  *)
(***************************************************************************)
\* An RTCPeerConnection.  ops is its operations chain: the asynchronous calls
\* made on it whose promise has not settled, oldest first.  link is the number
\* of the remote connection its transport is connected to (0: none); dead:
\* its transport has failed; announced: its datachannel event has fired.
NewConn(gen) ==
  [ gen |-> gen, closed |-> FALSE, signalingState |-> "stable",
    local |-> Null, remote |-> Null, ice |-> "new", ops |-> <<>>,
    link |-> 0, announced |-> FALSE, dead |-> FALSE ]

\* A closed connection, or none yet (gen = 0): it fires no event and settles
\* no promise.
ClosedConn(gen) ==
  [ gen |-> gen, closed |-> TRUE, signalingState |-> "closed",
    local |-> Null, remote |-> Null, ice |-> "new", ops |-> <<>>,
    link |-> 0, announced |-> FALSE, dead |-> FALSE ]

\* An RTCDataChannel.  onbufferedamountlow is the task registered as its
\* handler (0: null).  openPending: the channel was announced open and its
\* open event has not fired yet.
NewChan(id, readyState, openPending) ==
  [ id |-> id, readyState |-> readyState, openPending |-> openPending,
    bufferedAmount |-> 0, onbufferedamountlow |-> 0 ]

ClosedChan(id) == NewChan(id, "closed", FALSE)

\* a session description: the sdp names the connection that made it (by) and,
\* for an answer, the connection whose offer it answers (re)
Description(type, by, re) ==
  [kind |-> "desc", type |-> type, sdp |-> [by |-> by, re |-> re]]

\* the transport between p's connection and the remote one is up
LinkAlive(s, p) ==
  LET q == Other(p)
  IN  /\ ~s.conn[p].closed /\ ~s.conn[p].dead
      /\ s.conn[p].link # 0
      /\ ~s.conn[q].closed /\ ~s.conn[q].dead
      /\ s.conn[q].gen = s.conn[p].link
      /\ s.conn[q].link = s.conn[p].gen

\* RTCDataChannel.close(), or the channel's connection being closed: the
\* channel is closed, frames on their way to it are lost, its close event is
\* queued.
channelClose(s, p) ==
  IF s.chan[p].readyState \in {"connecting", "open"}
  THEN [s EXCEPT !.chan[p] = ClosedChan(@.id),
                 !.closeEvents[p] = @ \cup {s.chan[p].id},
                 !.wire[p] = <<>>]
  ELSE s

\* RTCPeerConnection.close(): pending promises never settle, its channels are
\* closed.
connectionClose(s, p) ==
  channelClose([s EXCEPT !.conn[p] = ClosedConn(@.gen), !.wire[p] = <<>>], p)

\* RTCDataChannel.send(frame) on an open channel
channelSend(s, p, frame) ==
  LET s1 == [s EXCEPT !.chan[p].bufferedAmount = @ + FrameBytes(frame)]
  IN  IF LinkAlive(s, p)
      THEN [s1 EXCEPT !.wire[Other(p)] = Append(@, frame)]
      ELSE s1

\* dc.current?.readyState === 'open'
ChannelIsOpen(s, p) == s.dc[p] # 0 /\ s.chan[p].readyState = "open"

\* crypto.randomUUID(): an id no message of the system carries
IdsInLog(log) == {log[i].id : i \in DOMAIN log}

IdsOnWire(w) ==
  {MemberValue(w[i].data.tree.members, "id").v :
     i \in {k \in DOMAIN w : /\ ~w[k].binary
                             /\ w[k].data.kind = "json"
                             /\ w[k].data.tree.j = "obj"
                             /\ "id" \in MemberKeys(w[k].data.tree.members)}}

UsedIds(s) ==
  UNION {IdsInLog(s.receivedMessages[q]) \cup IdsOnWire(s.wire[q]) : q \in Peers}

randomUUID(s, p) ==
  LET used == {id[2] : id \in {u \in UsedIds(s) : u[1] = p}}
  IN  << p, CHOOSE n \in 1..(Cardinality(used) + 1) : n \notin used >>

(***************************************************************************)
(* The hook                                                                *)
(***************************************************************************)
\* an update that puts the new message first
prependMessage(s, p, message) ==
  [s EXCEPT !.receivedMessages[p] = <<message>> \o @]

\* an append that also drops the transfer being received
appendMessageDroppingTransfer(s, p, message) ==
  [s EXCEPT !.receivedMessages[p] = Append(@, message),
            !.fileReceiver[p] = Null]

\* setReceivedMessages(prev => [...prev, message])
appendMessage(s, p, message) ==
  [s EXCEPT !.receivedMessages[p] = Append(@, message)]

\* resetState without its last statement, setErrorMessage(null)
resetStateKeepingError(s, p) ==
  LET s1 == IF s.pc[p] # 0 THEN connectionClose(s, p) ELSE s
      s2 == [s1 EXCEPT !.pc[p] = 0]
      s3 == IF s2.dc[p] # 0 THEN channelClose(s2, p) ELSE s2
  IN  [s3 EXCEPT !.dc[p] = 0,
                 !.connectionState[p] = "disconnected",
                 !.receivedMessages[p] = <<>>,
                 !.offerSdp[p] = Null,
                 !.answerSdp[p] = Null,
                 !.fileReceiver[p] = Null]

resetState(s, p) ==
  LET s1 == IF s.pc[p] # 0 THEN connectionClose(s, p) ELSE s
      s2 == [s1 EXCEPT !.pc[p] = 0]
      s3 == IF s2.dc[p] # 0 THEN channelClose(s2, p) ELSE s2
  IN  [s3 EXCEPT !.dc[p] = 0,
                 !.connectionState[p] = "disconnected",
                 !.receivedMessages[p] = <<>>,
                 !.offerSdp[p] = Null,
                 !.answerSdp[p] = Null,
                 !.fileReceiver[p] = Null,
                 !.errorMessage[p] = NoError]

\* a catch branch that reports the frame as an error of the session
fallbackSurfaced(s, p, event) ==
  [s EXCEPT !.errorMessage[p] = "Malformed message.",
            !.connectionState[p] = "failed"]

\* the catch branch of handleDataChannelMessage
fallbackText(s, p, event) ==
  appendMessage(s, p,
    [type |-> "text", id |-> randomUUID(s, p), content |-> event.data,
     sender |-> "peer", timestamp |-> Now])

\* a handler that takes every state for one with a transfer in flight
anyState(s, p) == TRUE

\* the second operand of the file-end test: fileReceiver.current is truthy
transferInFlight(s, p) == ~IsNull(s.fileReceiver[p])

\* the file-end branch: destructuring fileReceiver.current throws on null and
\* info.type throws on an undefined info, into the catch branch
completeTransfer(s, p, event) ==
  IF IsNull(s.fileReceiver[p]) \/ "type" \notin DOMAIN s.fileReceiver[p].info
  THEN fallbackText(s, p, event)
  ELSE LET info == s.fileReceiver[p].info
           chunks == s.fileReceiver[p].chunks
           downloadUrl == createObjectURL(BlobBytes(chunks), info.type)
           fileMessage ==
             [type |-> "file", id |-> randomUUID(s, p),
              sender |-> "peer", timestamp |-> Now,
              fileInfo |-> info, downloadUrl |-> downloadUrl]
       IN  [appendMessage(s, p, fileMessage) EXCEPT !.fileReceiver[p] = Null]

\* a file-meta branch that keeps the chunks of a transfer in flight
beginTransferKeepingChunks(s, p, message) ==
  [s EXCEPT !.fileReceiver[p] =
     [kind |-> "transfer",
      info |-> IF Has(message, "payload") THEN message.value.payload ELSE Null,
      chunks |-> IF IsNull(s.fileReceiver[p]) THEN <<>>
                 ELSE s.fileReceiver[p].chunks]]

\* the file-meta branch: fileReceiver.current = { info: payload, chunks: [] }
beginTransfer(s, p, message) ==
  [s EXCEPT !.fileReceiver[p] =
     [kind |-> "transfer",
      info |-> IF Has(message, "payload") THEN message.value.payload ELSE Null,
      chunks |-> <<>>]]

handleDataChannelMessage(s, p, event) ==
  IF ~event.binary
  THEN LET message == JSONparse(event.data)
       IN  IF ~message.ok \/ message.shape = "null"
           THEN \* JSON.parse threw, or message.type threw on null
                fallbackText(s, p, event)
           ELSE IF TypeIs(message, "file-meta")
           THEN beginTransfer(s, p, message)
           ELSE IF TypeIs(message, "file-end") /\ transferInFlight(s, p)
           THEN completeTransfer(s, p, event)
           ELSE IF TypeIs(message, "text")
           THEN appendMessage(s, p,
                  [k \in DOMAIN message.value \cup {"sender"} |->
                     IF k = "sender" THEN "peer" ELSE message.value[k]])
           ELSE s
  ELSE IF ~IsNull(s.fileReceiver[p])
       THEN [s EXCEPT !.fileReceiver[p].chunks = Append(@, event.data)]
       ELSE s

\* onopen, onclose and onmessage are those of the hook for every channel
\* that went through setupDataChannel
setupDataChannel(s, p, dataChannel) ==
  [s EXCEPT !.dc[p] = dataChannel]

createPeerConnection(s, p) ==
  LET gen == s.conn[p].gen + 1
  IN  [s EXCEPT !.conn[p] = NewConn(gen), !.pc[p] = gen]

\* pc.current!.createDataChannel('sendChannel')
createDataChannel(s, p) ==
  [s EXCEPT !.chan[p] = NewChan(s.conn[p].gen, "connecting", FALSE)]

\* an asynchronous call on pc.current: the operation joins the chain
enqueue(s, p, fn, step, arg) ==
  [s EXCEPT !.conn[p].ops = Append(@, [fn |-> fn, step |-> step, arg |-> arg])]

\* createOffer, up to its first await
createOffer(s, p) ==
  LET s1 == resetState(s, p)
      s2 == createPeerConnection(s1, p)
      s3 == createDataChannel(s2, p)
      s4 == setupDataChannel(s3, p, s3.chan[p].id)
  IN  enqueue(s4, p, "createOffer", "createOffer", Null)

\* a catch branch that sets the state and leaves the error message
failedWithoutMessage(s, p, message) ==
  [s EXCEPT !.connectionState[p] = "failed"]

\* the catch branches and onconnectionstatechange: setErrorMessage(message);
\* setConnectionState('failed')
failed(s, p, message) ==
  [s EXCEPT !.errorMessage[p] = message, !.connectionState[p] = "failed"]

InvalidOffer ==
  "Invalid session offer. Please copy the entire offer text and try again."

InvalidAnswer ==
  "Invalid session answer. Please copy the entire answer text and try again."

ConnectionFailed ==
  "Connection failed. This could be due to a network issue or firewall."

\* the sdp of a description no connection made
NoSdp == [by |-> <<>>, re |-> <<>>]

\* new RTCSessionDescription(JSON.parse(text)): the description, or a throw
\* (JSON.parse's SyntaxError, or the constructor's TypeError when the parsed
\* value has no type)
sessionDescription(text) ==
  LET parsed == JSONparse(text)
  IN  IF parsed.ok /\ Has(parsed, "type")
      THEN [ok |-> TRUE,
            desc |-> [kind |-> "desc", type |-> parsed.value.type,
                      sdp |-> IF Has(parsed, "sdp") THEN parsed.value.sdp
                              ELSE NoSdp]]
      ELSE [ok |-> FALSE, desc |-> Null]

\* createAnswer, up to its first await
createAnswer(s, p, remoteOfferSdp) ==
  LET s1 == IF s.pc[p] = 0 THEN createPeerConnection(resetState(s, p), p) ELSE s
      offer == sessionDescription(remoteOfferSdp)
  IN  IF offer.ok
      THEN enqueue(s1, p, "createAnswer", "setRemoteDescription", offer.desc)
      ELSE failed(s1, p, InvalidOffer)

\* setRemoteAnswer, up to its await
setRemoteAnswer(s, p, remoteAnswerSdp) ==
  IF s.pc[p] = 0 THEN s
  ELSE LET answer == sessionDescription(remoteAnswerSdp)
       IN  IF answer.ok
           THEN enqueue(s, p, "setRemoteAnswer", "setRemoteDescription", answer.desc)
           ELSE failed(s, p, InvalidAnswer)

\* sendText without the test of the channel's readyState
sendTextUnchecked(s, p, text) ==
  LET message == [type |-> "text", id |-> randomUUID(s, p),
                  content |-> text, timestamp |-> Now]
      s1 == channelSend(s, p, TextFrame(stringifyText(message)))
  IN  appendMessage(s1, p,
        [k \in DOMAIN message \cup {"sender"} |->
           IF k = "sender" THEN "me" ELSE message[k]])

sendText(s, p, text) ==
  IF ChannelIsOpen(s, p)
  THEN LET message == [type |-> "text", id |-> randomUUID(s, p),
                       content |-> text, timestamp |-> Now]
           s1 == channelSend(s, p, TextFrame(stringifyText(message)))
       IN  appendMessage(s1, p,
             [k \in DOMAIN message \cup {"sender"} |->
                IF k = "sender" THEN "me" ELSE message[k]])
  ELSE s

\* A sendFile call's closure: the file, the stage it is at ("reading": the
\* FileReader has not loaded; "timer": a setTimeout(sendChunk) is pending;
\* "waiting": sendChunk returned after registering for bufferedamountlow;
\* "done": file-end was sent; "threw": a step raised an error), offset, and
\* the chunks it has sent so far.  channel records which channel dc.current
\* was when sendFile ran, and overlap whether an earlier call on that channel
\* had not sent its file-end then; the closure holds neither and no step
\* reads them.
NewTask(file, channel, overlap) ==
  [file |-> file, stage |-> "reading", offset |-> 0, sent |-> <<>>,
   channel |-> channel, overlap |-> overlap]

\* a sendFile call on p's channel has not sent its file-end
SendInFlight(s, p) ==
  \E i \in DOMAIN s.tasks[p] :
    /\ s.tasks[p][i].channel = s.dc[p]
    /\ s.tasks[p][i].stage \in {"reading", "timer", "waiting"}

FileInfoOf(file) == [name |-> file.name, size |-> file.size, type |-> file.type]

\* a sendFile that starts reading without announcing the file
sendFileWithoutMeta(s, p, file) ==
  IF ~ChannelIsOpen(s, p) THEN s
  ELSE [s EXCEPT !.tasks[p] = Append(@, NewTask(file, s.dc[p], SendInFlight(s, p)))]

\* sendFile, up to reader.readAsArrayBuffer(file)
sendFile(s, p, file) ==
  IF ~ChannelIsOpen(s, p) THEN s
  ELSE LET fileMetaMessage == [type |-> "file-meta", payload |-> FileInfoOf(file)]
           s1 == channelSend(s, p, TextFrame(stringifyFileMeta(fileMetaMessage)))
       IN  [s1 EXCEPT !.tasks[p] = Append(@, NewTask(file, s.dc[p], SendInFlight(s, p)))]

\* a sendChunk that never suspends
neverWait(s, p) == FALSE

\* dc.current!.bufferedAmount > dc.current!.bufferedAmountLowThreshold
mustWait(s, p) == s.chan[p].bufferedAmount > bufferedAmountLowThreshold

\* sendChunk of task i.  dc.current! is dereferenced without a check: on null
\* the step raises a TypeError, and send() on a channel that is not open
\* raises an InvalidStateError; either ends the chain.
sendChunk(s, p, i) ==
  LET task   == s.tasks[p][i]
      buffer == FileBytes(task.file)
      threw  == [s EXCEPT !.tasks[p][i].stage = "threw"]
  IN  IF task.offset >= byteLength(buffer)
      THEN IF ~ChannelIsOpen(s, p) THEN threw
           ELSE LET s1 == channelSend(s, p,
                            TextFrame(stringifyFileEnd([type |-> "file-end"])))
                    s2 == appendMessage(s1, p,
                            [type |-> "file", id |-> randomUUID(s1, p),
                             sender |-> "me", timestamp |-> Now,
                             fileInfo |-> FileInfoOf(task.file),
                             downloadUrl |->
                               createObjectURL(FileBytes(task.file), task.file.type)])
                IN  [s2 EXCEPT !.tasks[p][i].stage = "done"]
      ELSE IF s.dc[p] = 0 THEN threw
      ELSE IF mustWait(s, p)
      THEN [s EXCEPT !.chan[p].onbufferedamountlow = i,
                     !.tasks[p][i].stage = "waiting"]
      ELSE LET chunk == slice(buffer, task.offset, task.offset + CHUNK_SIZE)
           IN  IF s.chan[p].readyState # "open" THEN threw
               ELSE [channelSend(s, p, BinaryFrame(chunk))
                       EXCEPT !.tasks[p][i].offset = @ + byteLength(chunk),
                              !.tasks[p][i].sent = Append(@, chunk),
                              !.tasks[p][i].stage = "timer"]

\* the handler sendChunk registers for bufferedamountlow
onbufferedamountlow(s, p, i) ==
  IF s.dc[p] = 0 THEN [s EXCEPT !.tasks[p][i].stage = "threw"]
  ELSE sendChunk([s EXCEPT !.chan[p].onbufferedamountlow = 0], p, i)

\* peerConnection.onicecandidate with candidate null
onicecandidate(s, p) ==
  LET sdp == stringifyDescription(s.conn[p].local)
  IN  IF ~IsNull(s.conn[p].local) /\ s.conn[p].local.type = "offer"
      THEN [s EXCEPT !.offerSdp[p] = sdp]
      ELSE [s EXCEPT !.answerSdp[p] = sdp]

\* peerConnection.onconnectionstatechange with connectionState 'failed'
onconnectionstatechange(s, p) == failed(s, p, ConnectionFailed)

\* an onopen that does nothing
onopenIgnored(s, p) == s

\* dc.current.onopen
onopen(s, p) == [s EXCEPT !.connectionState[p] = "connected"]

\* dc.current.onclose
onclose(s, p) == resetState(s, p)

\* peerConnection.ondatachannel
ondatachannel(s, p, channel) == setupDataChannel(s, p, channel)

\* App.renderContent: the ConnectionManager (the offer and answer texts, the
\* paste field, the Generate Answer and Connect buttons) is in the tree for
\* 'disconnected' and 'failed'; 'connecting' renders the spinner and
\* 'connected' the ShareInterface.
ConnectionManagerRendered(s, p) ==
  s.connectionState[p] \in {"disconnected", "failed"}

(***************************************************************************)
(* The platform: how a connection settles the operation at the head of     *)
(* its chain, and what the hook's continuation then does.                  *)
(***************************************************************************)
\* what the operation does to the connection: [ok, conn, value]
Execute(c, p, op) ==
  CASE op.step = "createOffer" ->
         [ok |-> TRUE, conn |-> c,
          value |-> Description("offer", <<p, c.gen>>, <<>>)]
    [] op.step = "createAnswer" ->
         IF c.signalingState = "have-remote-offer"
         THEN [ok |-> TRUE, conn |-> c,
               value |-> Description("answer", <<p, c.gen>>, c.remote.sdp.by)]
         ELSE [ok |-> FALSE, conn |-> c, value |-> Null]
    [] op.step = "setLocalDescription" ->
         LET started == IF c.ice = "new" THEN "gathering" ELSE c.ice
         IN  IF op.arg.type = "offer"
                /\ c.signalingState \in {"stable", "have-local-offer"}
             THEN [ok |-> TRUE, value |-> Null,
                   conn |-> [c EXCEPT !.signalingState = "have-local-offer",
                                      !.local = op.arg, !.ice = started]]
             ELSE IF op.arg.type = "answer"
                     /\ c.signalingState = "have-remote-offer"
             THEN [ok |-> TRUE, value |-> Null,
                   conn |-> [c EXCEPT !.signalingState = "stable",
                                      !.local = op.arg, !.ice = started]]
             ELSE [ok |-> FALSE, conn |-> c, value |-> Null]
    [] op.step = "setRemoteDescription" ->
         IF op.arg.sdp = NoSdp
         THEN [ok |-> FALSE, conn |-> c, value |-> Null]
         ELSE IF op.arg.type = "offer"
                 /\ c.signalingState \in {"stable", "have-remote-offer"}
         THEN [ok |-> TRUE, value |-> Null,
               conn |-> [c EXCEPT !.signalingState = "have-remote-offer",
                                  !.remote = op.arg]]
         ELSE IF op.arg.type = "answer"
                 /\ c.signalingState = "have-local-offer"
         THEN [ok |-> TRUE, value |-> Null,
               conn |-> [c EXCEPT !.signalingState = "stable",
                                  !.remote = op.arg]]
         ELSE [ok |-> FALSE, conn |-> c, value |-> Null]

\* createOffer after an await: a rejection leaves the async function, and
\* nothing handles it
createOfferContinue(s, p, op, r) ==
  IF ~r.ok THEN s
  ELSE IF op.step = "createOffer"
  THEN enqueue(s, p, "createOffer", "setLocalDescription", r.value)
  ELSE [s EXCEPT !.connectionState[p] = "connecting"]

\* createAnswer after an await, with its catch
createAnswerContinue(s, p, op, r) ==
  IF ~r.ok THEN failed(s, p, InvalidOffer)
  ELSE IF op.step = "setRemoteDescription"
  THEN enqueue(s, p, "createAnswer", "createAnswer", Null)
  ELSE IF op.step = "createAnswer"
  THEN enqueue(s, p, "createAnswer", "setLocalDescription", r.value)
  ELSE [s EXCEPT !.connectionState[p] = "connecting"]

\* setRemoteAnswer after its await, with its catch
setRemoteAnswerContinue(s, p, op, r) ==
  IF ~r.ok THEN failed(s, p, InvalidAnswer) ELSE s

\* The promise of the oldest operation of p's connection settles, and the
\* hook function that awaits it runs on.  fault: the platform fails the
\* operation whatever its arguments.
outcome(s, p, fault) ==
  LET op == Head(s.conn[p].ops)
      c  == [s.conn[p] EXCEPT !.ops = Tail(@)]
  IN  IF fault THEN [ok |-> FALSE, conn |-> c, value |-> Null]
      ELSE Execute(c, p, op)

settle(s, p, fault) ==
  LET op == Head(s.conn[p].ops)
      r  == outcome(s, p, fault)
      s1 == [s EXCEPT !.conn[p] = r.conn]
  IN  CASE op.fn = "createOffer" -> createOfferContinue(s1, p, op, r)
        [] op.fn = "createAnswer" -> createAnswerContinue(s1, p, op, r)
        [] op.fn = "setRemoteAnswer" -> setRemoteAnswerContinue(s1, p, op, r)

\* p made an offer, q answered it, and each has applied the other's description
Negotiated(s, p, q) ==
  LET a == s.conn[p]
      b == s.conn[q]
  IN  /\ ~a.closed /\ ~b.closed
      /\ ~IsNull(a.local) /\ ~IsNull(a.remote)
      /\ ~IsNull(b.local) /\ ~IsNull(b.remote)
      /\ a.local = Description("offer", <<p, a.gen>>, <<>>)
      /\ b.remote = a.local
      /\ b.local = Description("answer", <<q, b.gen>>, <<p, a.gen>>)
      /\ a.remote = b.local

(***************************************************************************)
(* Initial state: both hooks as constructed                                *)
(***************************************************************************)
Constructed ==
  /\ connectionState = [p \in Peers |-> "disconnected"]
  /\ receivedMessages = [p \in Peers |-> <<>>]
  /\ offerSdp = [p \in Peers |-> Null]
  /\ answerSdp = [p \in Peers |-> Null]
  /\ errorMessage = [p \in Peers |-> NoError]
  /\ pc = [p \in Peers |-> 0]
  /\ dc = [p \in Peers |-> 0]
  /\ fileReceiver = [p \in Peers |-> Null]
  /\ conn = [p \in Peers |-> ClosedConn(0)]
  /\ chan = [p \in Peers |-> ClosedChan(0)]
  /\ closeEvents = [p \in Peers |-> {}]
  /\ wire = [p \in Peers |-> <<>>]
  /\ tasks = [p \in Peers |-> <<>>]
  /\ calls = 0
  /\ sends = 0
  /\ faults = 0

Init ==
  /\ Constructed
  /\ budget = [calls |-> MaxCalls, sends |-> MaxSends, faults |-> MaxFaults,
               malformed |-> TRUE, files |-> Files]

\* the transfer scenarios: one negotiation, no injected failure, more sends
InitTransfer ==
  /\ Constructed
  /\ budget = [calls |-> TransferCalls, sends |-> TransferSends, faults |-> 0,
               malformed |-> TRUE, files |-> Files]

\* the scenarios of a second session: two negotiations with well-formed
\* pastes, no injected failure, a send of the file of one chunk
InitSessions ==
  /\ Constructed
  /\ budget = [calls |-> SessionsCalls, sends |-> SessionsSends, faults |-> 0,
               malformed |-> FALSE,
               files |-> {file \in Files : file.size = CHUNK_SIZE}]

\* the scenarios of inbound frames: one negotiation with well-formed pastes,
\* no injected failure, sends of the file of one chunk, of texts, and frames
\* from a remote endpoint that is not this hook
InitInbound ==
  /\ Constructed
  /\ budget = [calls |-> InboundCalls, sends |-> InboundSends, faults |-> 0,
               malformed |-> FALSE,
               files |-> {file \in Files : file.size = CHUNK_SIZE}]

(***************************************************************************)
(* The user's calls                                                        *)
(***************************************************************************)
Garbage == RawText("garbage")

\* JSON of a description whose sdp no connection accepts
BadSdp(type) == stringifyDescription([kind |-> "desc", type |-> type, sdp |-> NoSdp])

\* what the user of p can paste: what the other peer shows, or a malformed text
Pasted(p, type) ==
  LET shown == IF type = "offer" THEN offerSdp[Other(p)] ELSE answerSdp[Other(p)]
      wrong == IF type = "offer" THEN answerSdp[Other(p)] ELSE offerSdp[Other(p)]
  IN  {t \in {shown} : ~IsNull(t)}
        \cup (IF budget.malformed
              THEN {t \in {wrong} : ~IsNull(t)} \cup {Garbage, BadSdp(type)}
              ELSE {})

\* the budgets count the calls that do something
Called(t) == IF t = State THEN t ELSE [t EXCEPT !.calls = @ + 1]

Sent(t) == IF t = State THEN t ELSE [t EXCEPT !.sends = @ + 1]

UserCreateOffer(p) ==
  /\ calls < budget.calls
  /\ Becomes(Called(createOffer(State, p)))

UserCreateAnswer(p) ==
  /\ calls < budget.calls
  /\ \E text \in Pasted(p, "offer") : Becomes(Called(createAnswer(State, p, text)))

UserSetRemoteAnswer(p) ==
  /\ calls < budget.calls
  /\ \E text \in Pasted(p, "answer") :
       Becomes(Called(setRemoteAnswer(State, p, text)))

UserReset(p) ==
  /\ calls < budget.calls
  /\ Becomes(Called(resetState(State, p)))

UserSendText(p) ==
  /\ sends < budget.sends
  /\ \E text \in Texts : Becomes(Sent(sendText(State, p, text)))

UserSendFile(p) ==
  /\ sends < budget.sends
  /\ \E file \in budget.files : Becomes(Sent(sendFile(State, p, file)))

(***************************************************************************)
(* The platform's events                                                   *)
(***************************************************************************)
\* a promise of p's connection settles as the operation decides
Settle(p) ==
  /\ ~conn[p].closed /\ conn[p].ops # <<>>
  /\ Becomes(settle(State, p, FALSE))

\* a promise of p's connection is rejected by the platform
SettleFault(p) ==
  /\ ~conn[p].closed /\ conn[p].ops # <<>>
  /\ faults < budget.faults
  /\ Becomes([settle(State, p, TRUE) EXCEPT !.faults = @ + 1])

\* candidate gathering of p's connection completes
IceComplete(p) ==
  /\ ~conn[p].closed /\ conn[p].ice = "gathering"
  /\ Becomes(onicecandidate([State EXCEPT !.conn[p].ice = "complete"], p))

\* the transport between the offerer p and the answerer comes up
TransportConnect(p) ==
  LET q == Other(p)
  IN  /\ Negotiated(State, p, q)
      /\ conn[p].link = 0 /\ conn[q].link = 0
      /\ ~conn[p].dead /\ ~conn[q].dead
      /\ Becomes([State EXCEPT !.conn[p].link = conn[q].gen,
                               !.conn[q].link = conn[p].gen])

\* the transport of p's connection fails
TransportFail(p) ==
  /\ ~conn[p].closed /\ ~conn[p].dead
  /\ ~IsNull(conn[p].local) /\ ~IsNull(conn[p].remote)
  /\ faults < budget.faults
  /\ Becomes([onconnectionstatechange([State EXCEPT !.conn[p].dead = TRUE], p)
                EXCEPT !.faults = @ + 1])

\* the channel p created opens, or the open event of an announced channel fires
ChannelOpen(p) ==
  /\ dc[p] # 0
  /\ \/ chan[p].readyState = "connecting" /\ LinkAlive(State, p)
     \/ chan[p].readyState = "open" /\ chan[p].openPending
  /\ Becomes(onopen([State EXCEPT !.chan[p].readyState = "open",
                                  !.chan[p].openPending = FALSE], p))

\* the answerer's connection announces the channel the offerer created
IncomingChannel(p) ==
  /\ LinkAlive(State, p)
  /\ ~conn[p].announced
  /\ conn[p].local.type = "answer"
  /\ Becomes(ondatachannel(
       [State EXCEPT !.conn[p].announced = TRUE,
                     !.chan[p] = NewChan(conn[p].gen, "open", TRUE)],
       p, conn[p].gen))

\* the next frame on its way to p arrives
Deliver(p) ==
  /\ wire[p] # <<>>
  /\ dc[p] # 0 /\ chan[p].readyState = "open" /\ ~chan[p].openPending
  /\ Becomes(handleDataChannelMessage(
       [State EXCEPT !.wire[p] = Tail(@)], p, Head(wire[p])))

\* the send buffer of p's channel drains: bufferedamountlow fires when the
\* amount falls from above the threshold to it or below
Drain(p) ==
  /\ chan[p].readyState = "open" /\ chan[p].bufferedAmount > 0
  /\ LET s1 == [State EXCEPT !.chan[p].bufferedAmount = 0]
     IN  IF /\ chan[p].bufferedAmount > bufferedAmountLowThreshold
            /\ 0 <= bufferedAmountLowThreshold
            /\ chan[p].onbufferedamountlow # 0
         THEN Becomes(onbufferedamountlow(s1, p, chan[p].onbufferedamountlow))
         ELSE Becomes(s1)

\* the close event of a channel that p closed fires
CloseEvent(p) ==
  \E id \in closeEvents[p] :
    Becomes(onclose([State EXCEPT !.closeEvents[p] = @ \ {id}], p))

\* p's channel is closed from the other side: the remote connection was
\* closed, or the transport failed
RemoteClose(p) ==
  /\ dc[p] # 0 /\ chan[p].readyState = "open"
  /\ conn[p].link # 0 /\ ~LinkAlive(State, p)
  /\ Becomes(onclose([State EXCEPT !.chan[p] = ClosedChan(@.id),
                                   !.wire[p] = <<>>], p))

\* the FileReader of a sendFile call has loaded the file
ReaderLoad(p) ==
  \E i \in DOMAIN tasks[p] :
    /\ tasks[p][i].stage = "reading"
    /\ Becomes(sendChunk(State, p, i))

\* the timer a sendChunk set fires
TimerFire(p) ==
  \E i \in DOMAIN tasks[p] :
    /\ tasks[p][i].stage = "timer"
    /\ Becomes(sendChunk(State, p, i))

\* an id in a record that the remote endpoint wrote
ForeignId == <<"remote", 1>>

\* What onmessage can be handed: a string that is no JSON, JSON null, a JSON
\* number, objects with no type and with a type the protocol does not have,
\* a text record, file-meta with and without payload, file-end, and an
\* ArrayBuffer.
InboundUnits ==
  { TextFrame(RawText("garbage")),
    TextFrame(JsonText(JsonNull)),
    TextFrame(JsonText(Lit(5))),
    TextFrame(JsonText(Obj(<< <<"kind", Lit("text")>> >>))),
    TextFrame(JsonText(Obj(<< <<"type", Lit("ping")>> >>))),
    TextFrame(JsonText(Obj(<< <<"type", Lit("file-meta")>> >>))),
    TextFrame(stringifyFileEnd([type |-> "file-end"])),
    BinaryFrame(<< [src |-> "remote", lo |-> 0, hi |-> 10] >>) }
    \cup {TextFrame(stringifyText([type |-> "text", id |-> ForeignId,
                                   content |-> c, timestamp |-> Now])) :
            c \in Texts}
    \cup {TextFrame(stringifyFileMeta([type |-> "file-meta",
                                       payload |-> FileInfoOf(file)])) :
            file \in budget.files}

\* the remote endpoint of p's channel, which need not be this hook, sends a
\* frame to p
ForeignSend(p) ==
  /\ sends < budget.sends
  /\ dc[p] # 0 /\ chan[p].readyState = "open"
  /\ LinkAlive(State, p)
  /\ \E frame \in InboundUnits :
       Becomes([State EXCEPT !.wire[p] = Append(@, frame), !.sends = @ + 1])

Next ==
  \E p \in Peers :
    \/ UserCreateOffer(p)
    \/ UserCreateAnswer(p)
    \/ UserSetRemoteAnswer(p)
    \/ UserReset(p)
    \/ UserSendText(p)
    \/ UserSendFile(p)
    \/ Settle(p)
    \/ SettleFault(p)
    \/ IceComplete(p)
    \/ TransportConnect(p)
    \/ TransportFail(p)
    \/ ChannelOpen(p)
    \/ IncomingChannel(p)
    \/ Deliver(p)
    \/ Drain(p)
    \/ CloseEvent(p)
    \/ RemoteClose(p)
    \/ ReaderLoad(p)
    \/ TimerFire(p)

Spec == Init /\ [][Next]_vars

\* the steps of the transfer scenarios
NextTransfer ==
  \E p \in Peers :
    \/ UserCreateOffer(p)
    \/ UserCreateAnswer(p)
    \/ UserSetRemoteAnswer(p)
    \/ UserReset(p)
    \/ UserSendText(p)
    \/ UserSendFile(p)
    \/ Settle(p)
    \/ IceComplete(p)
    \/ TransportConnect(p)
    \/ ChannelOpen(p)
    \/ IncomingChannel(p)
    \/ Deliver(p)
    \/ Drain(p)
    \/ CloseEvent(p)
    \/ ReaderLoad(p)
    \/ TimerFire(p)

SpecTransfer == InitTransfer /\ [][NextTransfer]_vars

\* the steps of the scenarios of a second session
NextSessions ==
  \E p \in Peers :
    \/ UserCreateOffer(p)
    \/ UserCreateAnswer(p)
    \/ UserSetRemoteAnswer(p)
    \/ UserSendFile(p)
    \/ Settle(p)
    \/ IceComplete(p)
    \/ TransportConnect(p)
    \/ ChannelOpen(p)
    \/ IncomingChannel(p)
    \/ Deliver(p)
    \/ Drain(p)
    \/ CloseEvent(p)
    \/ RemoteClose(p)
    \/ ReaderLoad(p)
    \/ TimerFire(p)

SpecSessions == InitSessions /\ [][NextSessions]_vars

\* the steps of the scenarios of inbound frames
NextInbound ==
  \E p \in Peers :
    \/ UserCreateOffer(p)
    \/ UserCreateAnswer(p)
    \/ UserSetRemoteAnswer(p)
    \/ UserReset(p)
    \/ UserSendText(p)
    \/ UserSendFile(p)
    \/ ForeignSend(p)
    \/ Settle(p)
    \/ IceComplete(p)
    \/ TransportConnect(p)
    \/ ChannelOpen(p)
    \/ IncomingChannel(p)
    \/ Deliver(p)
    \/ Drain(p)
    \/ CloseEvent(p)
    \/ ReaderLoad(p)
    \/ TimerFire(p)

SpecInbound == InitInbound /\ [][NextInbound]_vars

\* The event loop runs every event that is due: a promise that can settle
\* settles, gathering completes, a negotiated transport comes up (unless it
\* fails), and the channel events fire.
Fairness ==
  \A p \in Peers :
    /\ WF_vars(Settle(p))
    /\ WF_vars(IceComplete(p))
    /\ WF_vars(TransportConnect(p))
    /\ WF_vars(ChannelOpen(p))
    /\ WF_vars(IncomingChannel(p))

FairSpec == Spec /\ Fairness

(***************************************************************************)
(* Properties                                                              *)
(***************************************************************************)
PeerFileMessages(log) ==
  SelectSeq(log, LAMBDA m : m.type = "file" /\ m.sender = "peer")

FileEndFrame == TextFrame(stringifyFileEnd([type |-> "file-end"]))

\* C7: from every reachable state, and for either peer, the state reset()
\* leaves has connectionState 'disconnected', pc and dc null with the
\* connection and the channel closed, an empty message log, offerSdp and
\* answerSdp null, no transfer being received and errorMessage null.
C7_ResetClearsSession ==
  \A p \in Peers :
    LET t == resetState(State, p)
    IN  /\ t.connectionState[p] = "disconnected"
        /\ t.pc[p] = 0 /\ t.conn[p].closed
        /\ t.dc[p] = 0 /\ t.chan[p].readyState = "closed"
        /\ t.receivedMessages[p] = <<>>
        /\ IsNull(t.offerSdp[p]) /\ IsNull(t.answerSdp[p])
        /\ IsNull(t.fileReceiver[p])
        /\ t.errorMessage[p] = NoError

\* a session that was connected and had an error has been reset: its peer
\* still shows the traffic and the error that closed it
C7_Witness ==
  \E p \in Peers :
    /\ pc[p] = 0 /\ conn[p].gen > 0 /\ conn[p].closed
    /\ dc[p] = 0 /\ chan[p].id > 0 /\ chan[p].readyState = "closed"
    /\ connectionState[p] = "disconnected" /\ errorMessage[p] = NoError
    /\ receivedMessages[p] = <<>>
    /\ connectionState[Other(p)] = "failed"
    /\ receivedMessages[Other(p)] # <<>>

\* C8: in every reachable state where a peer receives no transfer, a file-end
\* frame arriving at that peer changes nothing: the state the message handler
\* leaves is the state it found (message log, fileReceiver and
\* connectionState included).
C8_FileEndWithoutTransfer ==
  \A p \in Peers :
    IsNull(fileReceiver[p]) =>
      handleDataChannelMessage(State, p, FileEndFrame) = State

\* a file-end is about to arrive at a peer that has just completed a transfer
C8_Witness ==
  \E p \in Peers :
    /\ IsNull(fileReceiver[p])
    /\ dc[p] # 0 /\ chan[p].readyState = "open" /\ ~chan[p].openPending
    /\ wire[p] # <<>> /\ Head(wire[p]) = FileEndFrame
    /\ Len(PeerFileMessages(receivedMessages[p])) = 1

\* C9: in every reachable state where a peer's channel is absent or not open,
\* sendText and sendFile, whatever the text and the file, leave the state as
\* it is: no frame on a wire, no log entry, no change of the session.
C9_SendWithoutChannel ==
  \A p \in Peers :
    ~ChannelIsOpen(State, p) =>
      /\ \A text \in Texts : sendText(State, p, text) = State
      /\ \A file \in Files : sendFile(State, p, file) = State

\* a peer whose channel exists and is still connecting, and one with no
\* channel, while the user may still send
C9_Witness ==
  /\ sends < budget.sends
  /\ \E p \in Peers :
       /\ dc[p] # 0 /\ chan[p].readyState = "connecting"
       /\ dc[Other(p)] = 0

\* ceil(size / CHUNK_SIZE)
ChunkCount(size) == (size + CHUNK_SIZE - 1) \div CHUNK_SIZE

\* the size the k-th chunk of a file of this size must have
ChunkSize(size, k) ==
  IF k < ChunkCount(size) \/ size % CHUNK_SIZE = 0
  THEN CHUNK_SIZE ELSE size % CHUNK_SIZE

ChunkSizes(sent) == [k \in DOMAIN sent |-> byteLength(sent[k])]

\* C4: the binary frames a sendFile call has sent are at every moment the
\* first chunks of its file, each of CHUNK_SIZE bytes except a last one of
\* size mod CHUNK_SIZE bytes when that is not 0; a call that has sent file-end
\* has sent exactly ceil(size / CHUNK_SIZE) of them: none for the empty file,
\* one for 16384 bytes, and 16384, 16384 and 7232 bytes for 40000 bytes.
C4_ChunkFraming ==
  \A p \in Peers : \A i \in DOMAIN tasks[p] :
    LET task == tasks[p][i]
        size == task.file.size
    IN  /\ Len(task.sent) <= ChunkCount(size)
        /\ \A k \in DOMAIN task.sent :
              byteLength(task.sent[k]) = ChunkSize(size, k)
        /\ task.stage = "done" => Len(task.sent) = ChunkCount(size)
        /\ task.stage = "done" /\ size = 0 => task.sent = <<>>
        /\ task.stage = "done" /\ size = 16384 =>
              ChunkSizes(task.sent) = <<16384>>
        /\ task.stage = "done" /\ size = 40000 =>
              ChunkSizes(task.sent) = <<16384, 16384, 7232>>

\* a sendFile of the 40000 byte file and one of the 16384 byte file have
\* both sent file-end
C4_Witness ==
  \E p \in Peers : \E i, j \in DOMAIN tasks[p] :
    /\ tasks[p][i].stage = "done" /\ tasks[p][i].file.size = 40000
    /\ Len(tasks[p][i].sent) = 3
    /\ tasks[p][j].stage = "done" /\ tasks[p][j].file.size = 16384
    /\ Len(tasks[p][j].sent) = 1

\* C5: a sendFile call sends a chunk only in a step in which the channel's
\* bufferedAmount is not above bufferedAmountLowThreshold when sendChunk tests
\* it; a sendChunk that finds it above suspends the call without sending; and
\* a suspended call sends its next chunk only in the step in which
\* bufferedamountlow fires for it, the buffer having drained.
C5_Backpressure ==
  [][\A p \in Peers : \A i \in DOMAIN tasks[p] :
       LET before == tasks[p][i]
           after  == tasks'[p][i]
           over   == chan[p].bufferedAmount > bufferedAmountLowThreshold
       IN  /\ (after.sent # before.sent /\ before.stage # "waiting") => ~over
           /\ (after.sent # before.sent /\ before.stage = "waiting") =>
                 /\ over
                 /\ chan[p].onbufferedamountlow = i
                 /\ chan'[p].bufferedAmount = byteLength(after.sent[Len(after.sent)])
           /\ (/\ before.stage \in {"reading", "timer"}
               /\ after # before
               /\ before.offset < before.file.size
               /\ dc[p] # 0
               /\ over)
                => after.stage = "waiting" /\ after.sent = before.sent
           /\ before.stage = "waiting" /\ after.stage = "waiting" =>
                 after.sent = before.sent
    ]_vars

\* a call is suspended in the middle of its file, registered for
\* bufferedamountlow, with the buffer above the threshold
C5_Witness ==
  \E p \in Peers : \E i \in DOMAIN tasks[p] :
    /\ tasks[p][i].stage = "waiting"
    /\ Len(tasks[p][i].sent) = 2
    /\ chan[p].onbufferedamountlow = i
    /\ chan[p].bufferedAmount > bufferedAmountLowThreshold

\* the ids a text record may carry
TextIds == Peers \X (1 .. 4)

TextRecord(id, c) == [type |-> "text", id |-> id, content |-> c, timestamp |-> Now]

LogEntry(id, c, who) ==
  [type |-> "text", id |-> id, content |-> c, timestamp |-> Now, sender |-> who]

\* C6: a sendText(c) on an open channel appends, in its own step, exactly one
\* entry to the sender's log, a text with content c and sender 'me', and puts
\* exactly one frame on its way to the peer; the step that delivers that frame
\* takes it off the wire and appends exactly one entry to the receiver's log,
\* a text with content c and sender 'peer'.
C6_TextDelivery ==
  [][\A p \in Peers : \A c \in Texts :
       /\ (/\ ChannelIsOpen(State, p)
           /\ sends < budget.sends
           /\ sends' = sends + 1
           /\ Becomes(Sent(sendText(State, p, c))))
            => \E id \in TextIds :
                 /\ receivedMessages'[p] =
                      Append(receivedMessages[p], LogEntry(id, c, "me"))
                 /\ receivedMessages'[Other(p)] = receivedMessages[Other(p)]
                 /\ LinkAlive(State, p) =>
                      wire'[Other(p)] =
                        Append(wire[Other(p)],
                               TextFrame(stringifyText(TextRecord(id, c))))
       /\ (wire[p] # <<>> /\ wire'[p] # wire[p]) =>
            \A id \in TextIds :
              (/\ Head(wire[p]) = TextFrame(stringifyText(TextRecord(id, c)))
               /\ Deliver(p))
                => /\ receivedMessages'[p] =
                        Append(receivedMessages[p], LogEntry(id, c, "peer"))
                   /\ wire'[p] = Tail(wire[p])
    ]_vars

\* the text one peer sent is in its log as its own and in the other's log as
\* the peer's, once each
C6_Witness ==
  \E p \in Peers : \E id \in TextIds : \E c \in Texts :
    /\ receivedMessages[p] = << LogEntry(id, c, "me") >>
    /\ receivedMessages[Other(p)] = << LogEntry(id, c, "peer") >>

\* the session of p is in 'failed' with an error message
IsFailed(t, p) ==
  t.connectionState[p] = "failed" /\ t.errorMessage[p] # NoError

\* the oldest operation of p's connection belongs to one of these hook
\* functions and the connection rejects it
Rejects(p, fns) ==
  /\ ~conn[p].closed /\ conn[p].ops # <<>>
  /\ Head(conn[p].ops).fn \in fns
  /\ ~outcome(State, p, FALSE).ok

\* reset() of a failed session gives a disconnected one without error, on
\* which createOffer starts a negotiation on a new connection
Recovers(p) ==
  LET t == resetState(State, p)
      u == createOffer(t, p)
  IN  /\ t.connectionState[p] = "disconnected" /\ t.errorMessage[p] = NoError
      /\ u.pc[p] # 0 /\ ~u.conn[p].closed /\ u.conn[p].ops # <<>>
      /\ u.conn[p].signalingState = "stable"

\* C2, for every session: in every reachable state, a text that does not parse passed
\* to createAnswer or to setRemoteAnswer leaves the session 'failed' with an
\* error message, and so does the connection's rejection of a description
\* either function passed to it; and reset() of a failed session gives a
\* disconnected one with no error that can negotiate again.
C2_MalformedBlobFails ==
  \A p \in Peers :
    /\ IsFailed(createAnswer(State, p, Garbage), p)
    /\ IsFailed(setRemoteAnswer(State, p, Garbage), p)
    /\ Rejects(p, {"createAnswer", "setRemoteAnswer"}) =>
          IsFailed(settle(State, p, FALSE), p)
    /\ connectionState[p] = "failed" => Recovers(p)

\* C2, for sessions that hold a connection: the same, for setRemoteAnswer
\* only in the states where pc is not null; in the others setRemoteAnswer
\* returns at once and changes nothing.
C2_MalformedBlobFailsWithHandle ==
  \A p \in Peers :
    /\ IsFailed(createAnswer(State, p, Garbage), p)
    /\ pc[p] # 0 => IsFailed(setRemoteAnswer(State, p, Garbage), p)
    /\ pc[p] = 0 => setRemoteAnswer(State, p, Garbage) = State
    /\ Rejects(p, {"createAnswer", "setRemoteAnswer"}) =>
          IsFailed(settle(State, p, FALSE), p)
    /\ connectionState[p] = "failed" => Recovers(p)

\* one peer has failed on a malformed answer, the other on a malformed offer
C2_Witness ==
  \E p \in Peers :
    /\ pc[p] # 0 /\ connectionState[p] = "failed"
    /\ errorMessage[p] = InvalidAnswer
    /\ connectionState[Other(p)] = "failed"
    /\ errorMessage[Other(p)] = InvalidOffer

\* C10: every step in which a promise of a negotiation call is rejected
\* (by the connection, or by the platform whatever the arguments), and every
\* step in which the transport reports its failure, leaves the session
\* 'failed' with an error message.
C10_FailurePropagation ==
  [][\A p \in Peers :
       (\/ SettleFault(p)
        \/ Settle(p) /\ ~outcome(State, p, FALSE).ok
        \/ TransportFail(p))
         => connectionState'[p] = "failed" /\ errorMessage'[p] # NoError
    ]_vars

\* the file messages with this file's info and bytes
Matching(messages, file) ==
  SelectSeq(messages,
    LAMBDA m : /\ m.fileInfo = FileInfoOf(file)
               /\ m.downloadUrl = createObjectURL(FileBytes(file), file.type))

\* the sendFile calls of this file that have sent file-end
Completed(calls_, file) ==
  SelectSeq(calls_, LAMBDA task : task.stage = "done" /\ task.file = file)

\* C3: the file messages a peer has received are, file by file, those of
\* the sendFile calls of the other peer that have sent file-end: each has
\* the info and the bytes of a file sent, no file has more messages than
\* completed calls, and once every frame has arrived on the open channel it
\* has as many.
C3_DeliveryRoundTrip ==
  \A p \in Peers :
    LET q == Other(p)
        received == PeerFileMessages(receivedMessages[p])
    IN  /\ \A k \in DOMAIN received :
              \E i \in DOMAIN tasks[q] :
                Matching(<<received[k]>>, tasks[q][i].file) # <<>>
        /\ \A file \in Files :
              /\ Len(Matching(received, file)) <= Len(Completed(tasks[q], file))
              /\ (LinkAlive(State, p) /\ ChannelIsOpen(State, p)
                     /\ wire[p] = <<>>)
                   => Len(Matching(received, file)) = Len(Completed(tasks[q], file))

\* the offerer p has called setRemoteAnswer with the answer its peer shows,
\* made for p's offer: the third call of the handshake, and of the session
HandshakeCalled(p) ==
  LET q == Other(p)
  IN  /\ calls = 3
      /\ ~IsNull(answerSdp[q])
      /\ ~conn[p].closed /\ ~conn[q].closed
      /\ conn[q].local = Description("answer", <<q, conn[q].gen>>, <<p, conn[p].gen>>)
      /\ \E i \in DOMAIN conn[p].ops :
           /\ conn[p].ops[i].fn = "setRemoteAnswer"
           /\ conn[p].ops[i].arg = conn[q].local

BothConnected ==
  \A p \in Peers : connectionState[p] = "connected"

C11_FailedIsTerminal ==
  [][\A p \in Peers :
       connectionState[p] = "failed" =>
         connectionState'[p] \in {"failed", "disconnected"}
    ]_vars

\* the sendFile call i of p was cut by a reset: it has not sent file-end and
\* the channel it started on is no longer the session's channel
Aborted(p, i) ==
  /\ tasks[p][i].stage # "done"
  /\ dc[p] # tasks[p][i].channel

\* C12: a sendFile call that a reset has cut sends nothing more, on no
\* channel: in every step it sends no chunk and no file-end, and appends no
\* file message for its file to the log.
C12_ResetAbortsSend ==
  [][\A p \in Peers : \A i \in DOMAIN tasks[p] :
       Aborted(p, i) =>
         /\ tasks'[p][i].sent = tasks[p][i].sent
         /\ tasks'[p][i].stage # "done"
    ]_vars

\* the close event of channel id fires at p in this step
ClosesIn(p, id) == id \in closeEvents[p] /\ id \notin closeEvents'[p]

\* C13: a close event of a channel that is not the session's channel (one
\* that a reset released or a later createOffer or createAnswer replaced)
\* leaves the session's connection handle and connection, channel handle and
\* channel, log, offer, answer, transfer being received and state as they are.
C13_StaleCloseIgnored ==
  [][\A p \in Peers : \A id \in closeEvents[p] :
       (ClosesIn(p, id) /\ id # dc[p]) =>
         /\ pc'[p] = pc[p] /\ conn'[p] = conn[p]
         /\ dc'[p] = dc[p] /\ chan'[p] = chan[p]
         /\ receivedMessages'[p] = receivedMessages[p]
         /\ offerSdp'[p] = offerSdp[p] /\ answerSdp'[p] = answerSdp[p]
         /\ fileReceiver'[p] = fileReceiver[p]
         /\ connectionState'[p] = connectionState[p]
    ]_vars

\* the sendFile call i of p is suspended on the session's open channel
Suspended(p, i) ==
  /\ tasks[p][i].stage = "waiting"
  /\ dc[p] = tasks[p][i].channel
  /\ chan[p].readyState = "open"

\* C14: a sendFile call suspended on a channel that is still open is the one
\* the channel's next drain event resumes, also when another sendFile was
\* started meanwhile (a suspended call that the drain event does not resume
\* is resumed by nothing, and never sends its file-end).
C14_DrainResumesSuspended ==
  \A p \in Peers : \A i \in DOMAIN tasks[p] :
    Suspended(p, i) => chan[p].onbufferedamountlow = i

\* C15: when a sendFile call was started on a channel on which an earlier one
\* had not sent its file-end, every file message the receiver has appended
\* still has the info and exactly the bytes of one of the files sent, and once
\* every frame has arrived on the open channel, every file whose call has
\* sent file-end (and appended the sender's file message) has its file
\* message in the receiver's log.
C15_OverlappingSends ==
  \A p \in Peers :
    LET q == Other(p)
        received == PeerFileMessages(receivedMessages[p])
    IN  (\E j \in DOMAIN tasks[q] : tasks[q][j].overlap) =>
          /\ \A k \in DOMAIN received :
                \E i \in DOMAIN tasks[q] :
                  Matching(<<received[k]>>, tasks[q][i].file) # <<>>
          /\ (LinkAlive(State, p) /\ ChannelIsOpen(State, p) /\ wire[p] = <<>>)
               => \A i \in DOMAIN tasks[q] :
                    tasks[q][i].stage = "done" =>
                      Len(Matching(received, tasks[q][i].file))
                        >= Len(Completed(tasks[q], tasks[q][i].file))

\* C16: in every reachable state the channel handle dc is non-null only if
\* the state is 'connecting' or 'connected'.
C16_ChannelOnlyWhileConnecting ==
  \A p \in Peers :
    dc[p] # 0 => connectionState[p] \in {"connecting", "connected"}

FileMetaFrame(file) ==
  TextFrame(stringifyFileMeta([type |-> "file-meta", payload |-> FileInfoOf(file)]))

\* this step puts exactly this frame on p's channel
PutsFrame(p, frame) ==
  /\ chan'[p].bufferedAmount \in
       {FrameBytes(frame), chan[p].bufferedAmount + FrameBytes(frame)}
  /\ wire'[Other(p)] = IF LinkAlive(State, p)
                        THEN Append(wire[Other(p)], frame)
                        ELSE wire[Other(p)]

\* this step puts no frame on p's channel
PutsNothing(p) ==
  /\ chan'[p].bufferedAmount <= chan[p].bufferedAmount
  /\ wire'[Other(p)] = wire[Other(p)]

\* this step appends to p's log the file message of p's own file, and only it
AppendsOwnFile(p, file) ==
  LET log == receivedMessages[p]
      now == receivedMessages'[p]
  IN  /\ Len(now) = Len(log) + 1
      /\ SubSeq(now, 1, Len(log)) = log
      /\ now[Len(now)].type = "file"
      /\ now[Len(now)].sender = "me"
      /\ now[Len(now)].fileInfo = FileInfoOf(file)

\* the step in which sendFile call i of p starts
SendStarts(p, i) ==
  LET new == tasks'[p][i]
  IN  /\ i = Len(tasks[p]) + 1
      /\ new.stage = "reading" /\ new.offset = 0 /\ new.sent = <<>>
      /\ PutsFrame(p, FileMetaFrame(new.file))
      /\ receivedMessages'[p] = receivedMessages[p]

\* a step of sendFile call i of p after its start
SendAdvances(p, i) ==
  LET old    == tasks[p][i]
      new    == tasks'[p][i]
      buffer == FileBytes(old.file)
      chunk  == slice(buffer, old.offset, old.offset + CHUNK_SIZE)
  IN  /\ old.stage \in {"reading", "timer", "waiting"}
      /\ \/ /\ new = [old EXCEPT !.stage = "timer",
                                  !.offset = old.offset + byteLength(chunk),
                                  !.sent = Append(old.sent, chunk)]
            /\ old.offset < byteLength(buffer)
            /\ byteLength(chunk) > 0
            /\ PutsFrame(p, BinaryFrame(chunk))
            /\ receivedMessages'[p] = receivedMessages[p]
         \/ /\ new = [old EXCEPT !.stage = "waiting"]
            /\ old.offset < byteLength(buffer)
            /\ PutsNothing(p)
            /\ receivedMessages'[p] = receivedMessages[p]
         \/ /\ new = [old EXCEPT !.stage = "done"]
            /\ old.offset = byteLength(buffer)
            /\ BlobBytes(old.sent) = buffer
            /\ PutsFrame(p, FileEndFrame)
            /\ AppendsOwnFile(p, old.file)
         \/ /\ new = [old EXCEPT !.stage = "threw"]
            /\ PutsNothing(p)
            /\ receivedMessages'[p] = receivedMessages[p]

\* this step appends a file message of p's own to p's log
OwnFileAppended(p) ==
  /\ Len(receivedMessages'[p]) > Len(receivedMessages[p])
  /\ LET m == receivedMessages'[p][Len(receivedMessages'[p])]
     IN  m.type = "file" /\ m.sender = "me"

\* C17: the frames of one sendFile call leave in the order file-meta (in the
\* step the call starts, and only there), then the chunks, each the slice at
\* the offset the chunks before it add up to, then file-end when the offset
\* has reached the end and the chunks sent are the file; the sender's file
\* message is appended in the step that sends file-end and in no other, and
\* after it the call takes no further step.
C17_FrameOrder ==
  [][\A p \in Peers :
       /\ \A i \in DOMAIN tasks'[p] :
            IF i \notin DOMAIN tasks[p] THEN SendStarts(p, i)
            ELSE tasks'[p][i] # tasks[p][i] => SendAdvances(p, i)
       /\ Len(tasks'[p]) <= Len(tasks[p]) + 1
       /\ Cardinality({i \in DOMAIN tasks'[p] :
                          i \notin DOMAIN tasks[p]
                            \/ tasks'[p][i] # tasks[p][i]}) <= 1
       /\ OwnFileAppended(p) =>
            \E i \in DOMAIN tasks[p] :
              tasks[p][i].stage # "done" /\ tasks'[p][i].stage = "done"
    ]_vars

\* a file of three chunks was sent to its file-end and has arrived whole
C17_Witness ==
  \E p \in Peers : \E i \in DOMAIN tasks[p] :
    /\ tasks[p][i].stage = "done"
    /\ Len(tasks[p][i].sent) = 3
    /\ Len(receivedMessages[p]) = 1
    /\ Matching(PeerFileMessages(receivedMessages[Other(p)]), tasks[p][i].file) # <<>>

\* C18: the step that delivers a text frame while a transfer is being
\* received leaves the transfer (info and chunks) as it is and appends
\* exactly one entry, the peer's text; and when the sender's sendFile calls
\* did not overlap, every file message received has the info and exactly the
\* bytes of a file sent, whatever texts were sent meanwhile.
C18_TextDuringTransfer ==
  /\ [](\A p \in Peers :
          LET q == Other(p)
              received == PeerFileMessages(receivedMessages[p])
          IN  (\A j \in DOMAIN tasks[q] : ~tasks[q][j].overlap) =>
                \A k \in DOMAIN received :
                  \E i \in DOMAIN tasks[q] :
                    Matching(<<received[k]>>, tasks[q][i].file) # <<>>)
  /\ [][\A p \in Peers :
         (wire[p] # <<>> /\ ~IsNull(fileReceiver[p]) /\ ~Head(wire[p]).binary) =>
           \A id \in TextIds : \A c \in Texts :
             (/\ Head(wire[p]) = TextFrame(stringifyText(TextRecord(id, c)))
              /\ Deliver(p))
               => /\ fileReceiver'[p] = fileReceiver[p]
                  /\ receivedMessages'[p] =
                       Append(receivedMessages[p], LogEntry(id, c, "peer"))
      ]_vars

\* a text sent after the first chunk of a file has arrived while the transfer
\* is in flight: the sender's buffer holds the chunk and the text frame, the
\* receiver holds the chunk in its transfer and the text in its log
C18_Witness ==
  \E p \in Peers :
    LET q == Other(p)
    IN  /\ ~IsNull(fileReceiver[p])
        /\ Len(fileReceiver[p].chunks) = 1
        /\ Len(receivedMessages[p]) = 1
        /\ receivedMessages[p][1].type = "text"
        /\ receivedMessages[p][1].sender = "peer"
        /\ Len(tasks[q]) = 1 /\ Len(tasks[q][1].sent) = 1
        /\ chan[q].bufferedAmount > CHUNK_SIZE
        /\ wire[p] = <<>>

\* C19: the step that delivers a file-meta frame leaves a transfer with the
\* announced info and no chunks, whatever was being received before, and
\* appends nothing to the log.
C19_MetaStartsClean ==
  [][\A p \in Peers :
       (wire[p] # <<>> /\ ~Head(wire[p]).binary) =>
         \A file \in Files :
           (Head(wire[p]) = FileMetaFrame(file) /\ Deliver(p))
             => /\ fileReceiver'[p] =
                     [kind |-> "transfer", info |-> FileInfoOf(file),
                      chunks |-> <<>>]
                /\ receivedMessages'[p] = receivedMessages[p]
    ]_vars

\* a file-meta has replaced a transfer that held a chunk: every frame sent
\* has arrived, the first call has sent a chunk and no file-end, and the
\* receiver holds the second call's info, no chunk and an empty log
C19_Witness ==
  \E p \in Peers :
    LET q == Other(p)
    IN  /\ Len(tasks[q]) = 2
        /\ Len(tasks[q][1].sent) = 1 /\ tasks[q][1].stage # "done"
        /\ tasks[q][2].sent = <<>>
        /\ LinkAlive(State, p) /\ wire[p] = <<>>
        /\ ~IsNull(fileReceiver[p])
        /\ fileReceiver[p].info = FileInfoOf(tasks[q][2].file)
        /\ fileReceiver[p].chunks = <<>>
        /\ receivedMessages[p] = <<>>

\* this step releases or replaces the connection of p's session, as
\* resetState does
ResetIn(p) == pc[p] # 0 /\ pc'[p] # pc[p]

\* C20: every step leaves a session's log as it is or appends exactly one
\* entry at its end, the entries before it unchanged and in their order; the
\* log loses entries only in a step that resets the session, which empties it.
C20_LogAppendOnly ==
  [][\A p \in Peers :
       LET log == receivedMessages[p]
           now == receivedMessages'[p]
       IN  \/ now = log
           \/ Len(now) = Len(log) + 1 /\ SubSeq(now, 1, Len(log)) = log
           \/ now = <<>> /\ ResetIn(p)
    ]_vars

\* a log of two entries in the order of their events: the session's own
\* text, sent first and still on its way to the peer, then the peer's message
C20_Witness ==
  \E p \in Peers :
    /\ Len(receivedMessages[p]) = 2
    /\ receivedMessages[p][1].sender = "me"
    /\ receivedMessages[p][1].type = "text"
    /\ receivedMessages[p][2].sender = "peer"
    /\ wire[p] = <<>> /\ wire[Other(p)] # <<>>

\* C21: in every reachable state no two entries of a session's message log
\* have the same id, whatever was sent and whatever frames came in.
C21_UniqueIds ==
  \A p \in Peers :
    \A i, j \in DOMAIN receivedMessages[p] :
      receivedMessages[p][i].id = receivedMessages[p][j].id => i = j

\* the handler changed nothing of the sessions but p's log and the transfer
\* p is receiving
OnlyLogAndTransfer(t, p) ==
  t = [State EXCEPT !.receivedMessages[p] = t.receivedMessages[p],
                    !.fileReceiver[p] = t.fileReceiver[p]]

\* C22: in every reachable state, handling any inbound unit (a text that
\* does not parse, JSON null, a JSON number, an object with no type or with
\* an unknown type, any protocol record, any binary frame) changes neither
\* the connection state nor the error message nor anything but the log and
\* the transfer being received; a text that does not parse appends exactly
\* one text entry with sender 'peer' and the raw text as content; a binary
\* frame with no transfer in flight changes nothing.
C22_InboundNeverAnError ==
  \A p \in Peers : \A unit \in InboundUnits :
    LET t == handleDataChannelMessage(State, p, unit)
        log == receivedMessages[p]
        now == t.receivedMessages[p]
    IN  /\ OnlyLogAndTransfer(t, p)
        /\ (~unit.binary /\ ~JSONparse(unit.data).ok) =>
              /\ Len(now) = Len(log) + 1
              /\ SubSeq(now, 1, Len(log)) = log
              /\ now[Len(now)].type = "text"
              /\ now[Len(now)].sender = "peer"
              /\ now[Len(now)].content = unit.data
              /\ t.fileReceiver[p] = fileReceiver[p]
        /\ (unit.binary /\ IsNull(fileReceiver[p])) => t = State

\* a text that does not parse has arrived on a connected session: it is in
\* the log as the peer's text, and the session is connected without error
C22_Witness ==
  \E p \in Peers :
    /\ connectionState[p] = "connected"
    /\ errorMessage[p] = NoError
    /\ Len(receivedMessages[p]) = 1
    /\ receivedMessages[p][1].type = "text"
    /\ receivedMessages[p][1].sender = "peer"
    /\ receivedMessages[p][1].content = RawText("garbage")
    /\ wire[p] = <<>> /\ sends = InboundSends

\* p has started a negotiation and waits for the step a human relays: p made
\* an offer and has applied no answer, or p made an answer that the other
\* peer has not applied
WaitingForRelay(p) ==
  /\ connectionState[p] = "connecting"
  /\ pc[p] # 0 /\ ~conn[p].closed
  /\ ~IsNull(conn[p].local)
  /\ \/ conn[p].local.type = "offer" /\ IsNull(conn[p].remote)
     \/ conn[p].local.type = "answer" /\ conn[Other(p)].remote # conn[p].local

\* C23: whenever a session has started a negotiation and waits for the
\* relayed step, its ConnectionManager is rendered, so that the offer or
\* answer can be read and the answer pasted.
C23_ManagerRenderedWhileWaiting ==
  \A p \in Peers :
    WaitingForRelay(p) => ConnectionManagerRendered(State, p)

====
